---------------------------- MODULE Spec2Model ----------------------------
(***************************************************************************)
(* cargo-scout: the change-scoped lint filter.                             *)
(*                                                                         *)
(*   src/src/git.rs                       Parser::sections, SectionBuilder *)
(*   src/cargo-scout-lib/src/scout/mod.rs Scout::run, diff_in_member,      *)
(*                                        lines_in_range, files_match,     *)
(*                                        lints_from_diff                  *)
(*   src/cargo-scout-lib/src/config/rust.rs  CargoConfig::from_manifest    *)
(*   src/src/clippy.rs                    lints                            *)
(*                                                                         *)
(* Rust strings are modelled as sequences of one-character strings (all   *)
(* ASCII, so byte offsets and character offsets coincide); offsets are    *)
(* 0-based as in Rust, Option<T> is a record with a `some` flag.          *)
(***************************************************************************)
EXTENDS Integers, Sequences, FiniteSets, TLC

VARIABLES
    \* ---- Parser::sections (src/src/git.rs)
    overflow_checks,  \* build profile: TRUE = arithmetic overflow panics
    parse_pc,         \* "idle" | "lines" | "returned" | "panicked"
    l,                \* the line the loop body last ran on
    lines_read,       \* how many lines the iterator has yielded
    file_name,        \* the "current file" accumulator
    sections,         \* the Vec<Section> being built
    \* ---- files_match / lines_in_range on one pair (scout/mod.rs)
    lint,             \* &Lint
    git_section,      \* &Section
    files_matched,    \* Option<bool>: what files_match returned
    lines_matched,    \* Option<bool>: what lines_in_range returned
    \* ---- lints_from_diff on its own (scout/mod.rs)
    arg_lints,        \* lints: &[Lint]
    arg_diffs,        \* diffs: &[Section]
    filtered,         \* Option<Vec<Lint>>: what lints_from_diff returned
    \* ---- CargoConfig::from_manifest (config/rust.rs)
    manifest,         \* m: [workspace |-> Option<members>]
    only_members,     \* only_members: &[String]
    cfg_pc,           \* "idle" | "call" | "built" | "panicked"
    config,           \* the CargoConfig built: [root, members]
    \* ---- Scout::run (scout/mod.rs)
    scout_config,     \* self.config: [root, members]
    run_pc,           \* "idle" | "start" | "members" | "done" | "panicked"
    diff_sections,    \* what self.vcs.sections returned
    member_ix,        \* the member the iterator of line 36 yields next (from 1)
    lints,            \* the Vec the linter's results are appended to
    lint_calls,       \* the member paths self.linter.lints was called with, in order
    run_result,       \* None while running, then [ok |-> TRUE, val |-> Vec<Lint>] or [ok |-> FALSE]
    \* ---- lints (src/src/clippy.rs)
    clippy_output,    \* clippy_output: &str, as the sequence of its lines
    clippy_lints,     \* Option<Vec<Lint>>: what lints returned
    \* ---- Parser::sections on a whole diff text (src/src/git.rs)
    git_diff,         \* git_diff: &str, as the sequence of its lines
    parsed            \* None, then [panic |-> TRUE] or [panic |-> FALSE, sections |-> Vec<Section>]

parser_vars == <<overflow_checks, parse_pc, l, lines_read, file_name, sections>>

match_vars == <<lint, git_section, files_matched, lines_matched>>

filter_vars == <<arg_lints, arg_diffs, filtered>>

config_vars == <<manifest, only_members, cfg_pc, config>>

run_vars ==
    <<scout_config, run_pc, diff_sections, member_ix, lints, lint_calls, run_result>>

clippy_vars == <<clippy_output, clippy_lints>>

sections_vars == <<git_diff, parsed>>

vars ==
    <<parser_vars, match_vars, filter_vars, config_vars, run_vars, clippy_vars,
      sections_vars>>

-----------------------------------------------------------------------------
(* Bounds of the model *)

\* lines of diff text one call of Parser::sections reads
MaxLines == 4

\* the largest line number of a lint span or a diff section handed to lines_in_range
MaxLine == 3

\* lints handed to lints_from_diff
MaxLints == 2

\* diff sections handed to lints_from_diff
MaxDiffs == 2

\* members listed in a workspace manifest
MaxManifestMembers == 2

\* entries of the member filter
MaxFilter == 2

\* members of the configuration Scout::run is given
MaxMembers == 2

\* diff sections the VCS returns to Scout::run
MaxSections == 2

\* lines of the clippy_output handed to lints
MaxOutputLines == 3

\* lines of the diff text handed whole to Parser::sections
MaxDiffLines == 4

-----------------------------------------------------------------------------
(* Option<T> *)

None == [some |-> FALSE]

Some(v) == [some |-> TRUE, val |-> v]

-----------------------------------------------------------------------------
(* str: the std operations the code calls *)

SetMin(S) == CHOOSE x \in S : \A y \in S : x <= y

\* str::starts_with
starts_with(s, pat) == Len(pat) <= Len(s) /\ SubSeq(s, 1, Len(pat)) = pat

\* str::find: the 0-based offset of the first occurrence
find(s, pat) ==
    LET hits == {i \in 0..(Len(s) - Len(pat)) : SubSeq(s, i + 1, i + Len(pat)) = pat}
    IN  IF hits = {} THEN None ELSE Some(SetMin(hits))

\* &s[i..]; the caller checks i <= Len(s) (Rust panics otherwise)
slice_from(s, i) == SubSeq(s, i + 1, Len(s))

\* &s[..j]; the caller checks j <= Len(s)
slice_to(s, j) == SubSeq(s, 1, j)

is_whitespace(c) == c \in {" ", "\t"}

\* str::trim
trim(s) ==
    LET keep == {i \in 1..Len(s) : ~is_whitespace(s[i])}
    IN  IF keep = {} THEN <<>>
        ELSE SubSeq(s, SetMin(keep), CHOOSE i \in keep : \A j \in keep : j <= i)

\* str::replace for a one-character pattern
RECURSIVE replace(_, _, _)
replace(s, from, to) ==
    IF s = <<>> THEN <<>>
    ELSE <<IF Head(s) = from THEN to ELSE Head(s)>> \o replace(Tail(s), from, to)

-----------------------------------------------------------------------------
(* i32 *)

I32Max == 2147483647

I32Min == -2147483647 - 1

Digits == <<"0", "1", "2", "3", "4", "5", "6", "7", "8", "9">>

is_digit(c) == \E d \in 1..10 : Digits[d] = c

digit_value(c) == (CHOOSE d \in 1..10 : Digits[d] = c) - 1

\* The digit loop of from_str_radix: checked_mul(10) then checked_add / checked_sub.
\* acc is kept non-negative for a positive number and non-positive for a negative
\* one, exactly as core does, so that i32::MIN parses.
RECURSIVE parse_digits(_, _, _)
parse_digits(s, acc, positive) ==
    IF s = <<>> THEN Some(acc)
    ELSE IF ~is_digit(Head(s)) THEN None
    ELSE LET d == digit_value(Head(s))
         IN  IF positive
             THEN IF acc > (I32Max - d) \div 10 THEN None
                  ELSE parse_digits(Tail(s), acc * 10 + d, positive)
             ELSE IF acc < (I32Min + d + 9) \div 10 THEN None
                  ELSE parse_digits(Tail(s), acc * 10 - d, positive)

\* str::parse::<i32>: an optional sign, then at least one digit, in range
parse_i32(s) ==
    IF s = <<>> THEN None
    ELSE IF Head(s) \in {"+", "-"}
         THEN IF Tail(s) = <<>> THEN None
              ELSE parse_digits(Tail(s), 0, Head(s) = "+")
         ELSE parse_digits(s, 0, TRUE)

add_overflows(a, b) ==
    \/ b > 0 /\ a > I32Max - b
    \/ b < 0 /\ a < I32Min - b

\* a + b in two's complement, computed without leaving the 32-bit range
wrapping_add(a, b) ==
    IF ~add_overflows(a, b) THEN a + b
    ELSE IF b > 0 THEN ((a - I32Max) - 1) + ((b - I32Max) - 1)
    ELSE ((a - I32Min) + (b + I32Max)) + 1


-----------------------------------------------------------------------------
(* Section and SectionBuilder, src/src/git.rs *)

Section(name, line_start, line_end) ==
    [file_name |-> name, line_start |-> line_start, line_end |-> line_end]

\* SectionBuilder::new
SectionBuilder_new == [file_name |-> None, line_start |-> None, line_end |-> None]

\* SectionBuilder::build: a Section only when all three fields were set
build(b) ==
    IF b.file_name.some /\ b.line_start.some /\ b.line_end.some
    THEN Some(Section(b.file_name.val, b.line_start.val, b.line_end.val))
    ELSE None

-----------------------------------------------------------------------------
(* Parser::sections: one run of the loop body on line ln *)

Panic == [panic |-> TRUE]

Continue(name, pushed) == [panic |-> FALSE, file_name |-> name, pushed |-> pushed]

file_line_after_last_slash(ln) ==
    LET slashes == {i \in 1..Len(ln) : ln[i] = "/"}
    IN  IF slashes = {} THEN Panic
        ELSE Continue(SubSeq(ln, (CHOOSE i \in slashes : \A j \in slashes : j <= i) + 1,
                             Len(ln)), None)

\* `if l.starts_with("+++")`: file_name = l[l.find('/').unwrap() + 1..]
file_line(ln) ==
    LET slash == find(ln, <<"/">>)
    IN  IF ~slash.some THEN Panic                       \* unwrap on None
        ELSE Continue(slice_from(ln, slash.val + 1), None)

hunk_line_end_inclusive(min_line_start, count) == wrapping_add(min_line_start, count - 1)

\* line 116: min_line_start + count, as the build without overflow checks adds
hunk_line_end(min_line_start, count) == wrapping_add(min_line_start, count)

\* From `added` to the pushed section (lines 106-119)
hunk_range(added, name, checks) ==
    IF Len(added) < 1 THEN Panic                        \* added[1..] out of range
    ELSE
    LET rest        == slice_from(added, 1)
        index       == find(rest, <<",">>)
        added_start == IF index.some THEN slice_to(rest, index.val) ELSE added
        added_span  == IF index.some
                       THEN slice_from(slice_from(rest, index.val), 1)
                       ELSE <<>>
        start       == parse_i32(added_start)
    IN  IF ~start.some THEN Panic                       \* parse().unwrap()
        ELSE
        LET min_line_start == start.val
            span  == parse_i32(added_span)
            count == IF span.some THEN span.val ELSE 1  \* unwrap_or(1)
        IN  IF checks /\ add_overflows(min_line_start, count)
            THEN Panic                                  \* attempt to add with overflow
            ELSE
            LET current_section ==
                    [SectionBuilder_new EXCEPT
                        !.file_name  = Some(name),
                        !.line_start = Some(min_line_start),
                        !.line_end   = Some(hunk_line_end(min_line_start, count))]
            IN  Continue(name, build(current_section))

\* `if l.starts_with("@@")` (lines 95-120)
hunk_line(ln, name, checks) ==
    IF Len(ln) < 3 THEN Panic                           \* &l[3..] out of range
    ELSE
    LET after_ats == slice_from(ln, 3)
        second    == find(after_ats, <<"@", "@">>)
    IN  IF ~second.some THEN Panic                      \* unwrap on None
        \* usize 0 - 1: panics with overflow checks; without them the index is
        \* usize::MAX and the slice below is out of range
        ELSE IF second.val = 0 THEN Panic
        ELSE
        LET before_second_ats_index == second.val - 1
            diff_lines == slice_to(after_ats, before_second_ats_index)
            space      == find(diff_lines, <<" ">>)
        IN  IF ~space.some THEN Panic                   \* unwrap on None
            ELSE hunk_range(trim(slice_from(diff_lines, space.val)), name, checks)

loop_body(ln, name, checks) ==
    IF starts_with(ln, <<"+", "+", "+">>) THEN file_line(ln)
    ELSE IF starts_with(ln, <<"@", "@">>) THEN hunk_line(ln, name, checks)
    ELSE Continue(name, None)

-----------------------------------------------------------------------------
(* std::path *)

\* the text of s cut at every "/" (empty pieces included)
RECURSIVE split_on_slash(_, _)
split_on_slash(s, piece) ==
    IF s = <<>> THEN <<piece>>
    ELSE IF Head(s) = "/" THEN <<piece>> \o split_on_slash(Tail(s), <<>>)
    ELSE split_on_slash(Tail(s), Append(piece, Head(s)))

\* Path::components without the root: repeated separators, a trailing separator
\* and "." pieces are normalised away (a leading "." is a CurDir component, which
\* is never a file name, so dropping it too leaves Path::file_name the same)
components(path) ==
    SelectSeq(split_on_slash(path, <<>>), LAMBDA c : c # <<>> /\ c # <<".">>)

\* Path::file_name: the last component when it is a normal one, None when the
\* path has none or ends in ".."
path_file_name(path) ==
    LET cs == components(path)
    IN  IF cs = <<>> THEN None
        ELSE IF cs[Len(cs)] = <<".", ".">> THEN None
        ELSE Some(cs[Len(cs)])

\* Path::join: an absolute path replaces base, a relative one is pushed after a
\* separator (unless base is empty or already ends with one)
path_join(base, path) ==
    IF starts_with(path, <<"/">>) THEN path
    ELSE IF base = <<>> \/ base[Len(base)] = "/" THEN base \o path
    ELSE base \o <<"/">> \o path

-----------------------------------------------------------------------------
(* config/rust.rs: CargoConfig::from_manifest *)

contains(list, x) == \E i \in 1..Len(list) : list[i] = x

keep_member_full_path(m, filter) ==
    IF filter = <<>> THEN TRUE ELSE contains(filter, m)

\* the closure of lines 80-96
keep_member(m, filter) ==
    IF filter = <<>> THEN TRUE
    ELSE LET final_path_seg == path_file_name(m)
         IN  IF ~final_path_seg.some THEN FALSE
             ELSE contains(filter, final_path_seg.val)

\* w.members.into_iter().filter(..).collect()
filter_members(members, filter) ==
    SelectSeq(members, LAMBDA m : keep_member(m, filter))

\* the members field of the CargoConfig built (lines 72-107)
from_manifest_members(m, filter) ==
    IF m.workspace.some
    THEN filter_members(m.workspace.val, filter)
    ELSE <<  <<".">>  >>

-----------------------------------------------------------------------------
(* scout/mod.rs: diff_in_member and the member paths of Scout::run *)

diff_in_member_at_boundary(member, secs) ==
    \E i \in 1..Len(secs) :
        /\ starts_with(secs[i].file_name, member)
        /\ \/ Len(secs[i].file_name) = Len(member)
           \/ secs[i].file_name[Len(member) + 1] = "/"

diff_in_member(member, secs) ==
    \E i \in 1..Len(secs) : starts_with(secs[i].file_name, member)

\* lines 40-47: self.config.root().join(m)
member_path(cfg, i) == path_join(cfg.root, cfg.members[i])

\* lines 58-69: every lint's path joined onto the root
rewrite_paths(root, ls) ==
    [i \in 1..Len(ls) |->
        [ls[i] EXCEPT !.location.path = path_join(root, ls[i].location.path)]]

-----------------------------------------------------------------------------
(* The diff text Parser::sections is given *)

\* a non-negative number as `git diff` writes it
RECURSIVE Dec(_)
Dec(n) == IF n < 10 THEN <<Digits[n + 1]>> ELSE Dec(n \div 10) \o <<Digits[(n % 10) + 1]>>

DecInt(n) == IF n < 0 THEN <<"-">> \o Dec(-n) ELSE Dec(n)

\* +++ b/<path>
FileLine(path) == <<"+", "+", "+", " ", "b", "/">> \o path

\* @@ -<old> <new> @@
HunkLine(old, new) == <<"@", "@", " ", "-">> \o old \o <<" ">> \o new \o <<" ", "@", "@">>

\* @@ -S,6 +S,C @@
HunkWithCount(S, C) ==
    HunkLine(Dec(S) \o <<",", "6">>, <<"+">> \o Dec(S) \o <<",">> \o DecInt(C))

\* @@ -S +S @@
HunkNoCount(S) == HunkLine(Dec(S), <<"+">> \o Dec(S))

FileNames == {<<"f">>, <<"d", "/", "g">>}

\* the <<S, C>> of the headers @@ -S,6 +S,C @@ that are read
HunkCases == {<<33, 9>>, <<5, 0>>, <<5, -3>>, <<I32Max, 0>>, <<I32Max, 9>>}

\* the S of the headers @@ -S +S @@ that are read
Starts == {5, I32Max}

\* @@ -5 +5,x @@ : the count is not a number
HunkBadCount == HunkLine(<<"5">>, <<"+", "5", ",", "x">>)

\* @@ -5 +x,2 @@ : the start line is not a number
HunkBadStart == HunkLine(<<"5">>, <<"+", "x", ",", "2">>)

\* @@ -5 +5 : no second @@
HunkNoSecondAts == <<"@", "@", " ", "-", "5", " ", "+", "5">>

\* @@ +5 @@ : no whitespace-separated new-file half
HunkNoNewHalf == <<"@", "@", " ", "+", "5", " ", "@", "@">>

\* +++ x : no path separator
FileLineNoSlash == <<"+", "+", "+", " ", "x">>

\* --- a/f : neither marker
OtherLines == {<<"-", "-", "-", " ", "a", "/", "f">>}

WellFormedHunks ==
    {HunkWithCount(c[1], c[2]) : c \in HunkCases} \cup {HunkNoCount(S) : S \in Starts}

MalformedLines ==
    {HunkBadStart, HunkNoSecondAts, HunkNoNewHalf, FileLineNoSlash, <<"@", "@">>}

DiffLines ==
    {FileLine(p) : p \in FileNames} \cup WellFormedHunks \cup {HunkBadCount}
        \cup MalformedLines \cup OtherLines

-----------------------------------------------------------------------------
(* Lint and Section of cargo-scout-lib, as scout/mod.rs uses them *)

\* linter::Lint { location: Location { path, lines: [start, end] }, message }
Lint(path, lines, message) ==
    [location |-> [path |-> path, lines |-> lines], message |-> message]

\* Lint's Eq, which HashSet<Lint> relies on: all of path, lines and message
lint_eq(a, b) ==
    /\ a.location.path = b.location.path
    /\ a.location.lines = b.location.lines
    /\ a.message = b.message

\* lint.location.lines[0] and [1]: Rust indexes from 0
line_start_of(x) == x.location.lines[1]

line_end_of(x) == x.location.lines[2]

-----------------------------------------------------------------------------
(* scout/mod.rs: lines_in_range, files_match, lints_from_diff *)

lines_in_range_one_sided(x, s) ==
    line_start_of(x) <= s.line_start /\ s.line_start <= line_end_of(x)

lines_in_range(x, s) ==
    \* If git_section.line_start is included in the lint span
    \/ line_start_of(x) <= s.line_start /\ s.line_start <= line_end_of(x)
    \* If lint.line_start is included in the git_section span
    \/ s.line_start <= line_start_of(x) /\ line_start_of(x) <= s.line_end

files_match_raw(x, s) == x.location.path = s.file_name

files_match(x, s) ==
    replace(x.location.path, "\\", "/") = replace(s.file_name, "\\", "/")

hash_set_contains(set, x) == \E i \in 1..Len(set) : lint_eq(set[i], x)

hash_set_push(set, x) == Append(set, x)

\* HashSet::insert: the set is kept as the sequence of its elements, in the order
\* they were first inserted; an element equal to one already held is not added
hash_set_insert(set, x) == IF hash_set_contains(set, x) THEN set ELSE Append(set, x)

RECURSIVE insert_first_match(_, _, _, _)
insert_first_match(set, ls, i, diff) ==
    IF i > Len(ls) THEN set
    ELSE IF files_match(ls[i], diff) /\ lines_in_range(ls[i], diff)
         THEN hash_set_insert(set, ls[i])
         ELSE insert_first_match(set, ls, i + 1, diff)

\* `for l in diff_lints { lints_in_diff.insert(l.clone()) }` for one diff:
\* the lints of lints[i..] that match diff, inserted in order
RECURSIVE insert_matching(_, _, _, _)
insert_matching(set, ls, i, diff) ==
    IF i > Len(ls) THEN set
    ELSE insert_matching(
            IF files_match(ls[i], diff) /\ lines_in_range(ls[i], diff)
            THEN hash_set_insert(set, ls[i])
            ELSE set,
            ls, i + 1, diff)

RECURSIVE for_diff_first_only(_, _, _, _)
for_diff_first_only(set, ls, ds, j) ==
    IF j > Len(ds) \/ j > 1 THEN set
    ELSE for_diff_first_only(insert_matching(set, ls, 1, ds[j]), ls, ds, j + 1)

\* `for diff in ds { ... }` from ds[j] on
RECURSIVE for_diff(_, _, _, _)
for_diff(set, ls, ds, j) ==
    IF j > Len(ds) THEN set
    ELSE for_diff(insert_matching(set, ls, 1, ds[j]), ls, ds, j + 1)

\* lints_in_diff when the loop of lints_from_diff has ended
lints_in_diff_of(ls, ds) == for_diff(<<>>, ls, ds, 1)

\* the orders in which HashSet::into_iter may yield the elements of set
Orders(set) ==
    {[i \in 1..Len(set) |-> set[pi[i]]] : pi \in Permutations(1..Len(set))}

\* lints_from_diff: every Vec that `lints_in_diff.into_iter().collect()` may be
lints_from_diff(ls, ds) == Orders(lints_in_diff_of(ls, ds))

-----------------------------------------------------------------------------
(* Parser::sections as a state machine: one step per line of git_diff.lines() *)

ParserIdle ==
    /\ overflow_checks = FALSE
    /\ parse_pc = "idle"
    /\ l = <<>>
    /\ lines_read = 0
    /\ file_name = <<>>
    /\ sections = <<>>

\* lines 84-85: sections = Vec::new(), file_name = ""
ParserInit ==
    /\ overflow_checks \in BOOLEAN
    /\ parse_pc = "lines"
    /\ l = <<>>
    /\ lines_read = 0
    /\ file_name = <<>>
    /\ sections = <<>>

\* the iterator yields ln and the loop body runs on it
ReadLine(ln) ==
    /\ parse_pc = "lines"
    /\ lines_read < MaxLines
    /\ l' = ln
    /\ lines_read' = lines_read + 1
    /\ LET r == loop_body(ln, file_name, overflow_checks)
       IN  IF r.panic
           THEN /\ parse_pc' = "panicked"
                /\ UNCHANGED <<file_name, sections>>
           ELSE /\ parse_pc' = "lines"
                /\ file_name' = r.file_name
                /\ sections' = IF r.pushed.some
                               THEN Append(sections, r.pushed.val)
                               ELSE sections
    /\ UNCHANGED overflow_checks
    /\ UNCHANGED <<match_vars, filter_vars, config_vars, run_vars, clippy_vars,
                 sections_vars>>

\* the iterator is exhausted: line 122 returns sections
SectionsReturn ==
    /\ parse_pc = "lines"
    /\ parse_pc' = "returned"
    /\ UNCHANGED <<overflow_checks, l, lines_read, file_name, sections>>
    /\ UNCHANGED <<match_vars, filter_vars, config_vars, run_vars, clippy_vars,
                 sections_vars>>

ParserNext ==
    \/ \E ln \in DiffLines : ReadLine(ln)
    \/ SectionsReturn

-----------------------------------------------------------------------------
(* files_match and lines_in_range applied to one lint and one diff section *)

\* paths that differ in separator style, case, a leading slash, a dot segment,
\* a doubled separator, or one character
MatchPaths ==
    { <<"a", "/", "b">>,
      <<"a", "\\", "b">>,
      <<"/", "a", "/", "b">>,
      <<"a", "\\", "\\", "b">>,
      <<"a", "/", "/", "b">>,
      <<"A", "/", "b">>,
      <<".", "/", "a", "/", "b">>,
      <<"a", "/", "c">> }

LineNumbers == 0..MaxLine

MatchIdle ==
    /\ lint = Lint(<<>>, <<0, 0>>, <<>>)
    /\ git_section = Section(<<>>, 0, 0)
    /\ files_matched = None
    /\ lines_matched = None

MatchInit ==
    /\ \E p \in MatchPaths, s \in LineNumbers, e \in LineNumbers :
            lint = Lint(p, <<s, e>>, <<>>)
    /\ \E p \in MatchPaths, s \in LineNumbers, e \in LineNumbers :
            git_section = Section(p, s, e)
    /\ files_matched = None
    /\ lines_matched = None

FilesMatch ==
    /\ ~files_matched.some
    /\ files_matched' = Some(files_match(lint, git_section))
    /\ UNCHANGED <<lint, git_section, lines_matched>>
    /\ UNCHANGED <<parser_vars, filter_vars, config_vars, run_vars, clippy_vars,
                 sections_vars>>

LinesInRange ==
    /\ ~lines_matched.some
    /\ lines_matched' = Some(lines_in_range(lint, git_section))
    /\ UNCHANGED <<lint, git_section, files_matched>>
    /\ UNCHANGED <<parser_vars, filter_vars, config_vars, run_vars, clippy_vars,
                 sections_vars>>

MatchNext == FilesMatch \/ LinesInRange

-----------------------------------------------------------------------------
(* lints_from_diff applied to a list of lints and a list of diff sections *)

\* f/x and f\x name one file, g another
FilterPaths == {<<"f", "/", "x">>, <<"f", "\\", "x">>}

FilterFiles == {<<"f", "/", "x">>, <<"g">>}

FilterLintLines == {<<2, 2>>, <<12, 22>>}

FilterMessages == {<<"m">>, <<"n">>}

FilterLints ==
    {Lint(p, ln, m) : p \in FilterPaths, ln \in FilterLintLines, m \in FilterMessages}

FilterSections ==
    {Section(f, r[1], r[2]) : f \in FilterFiles, r \in {<<0, 10>>, <<2, 5>>}}

\* the sequences over S of length at most n
SeqUpTo(S, n) == UNION {[1..k -> S] : k \in 0..n}

FilterIdle ==
    /\ arg_lints = <<>>
    /\ arg_diffs = <<>>
    /\ filtered = None

FilterInit ==
    /\ arg_lints \in SeqUpTo(FilterLints, MaxLints)
    /\ arg_diffs \in SeqUpTo(FilterSections, MaxDiffs)
    /\ filtered = None

LintsFromDiff ==
    /\ ~filtered.some
    /\ \E v \in lints_from_diff(arg_lints, arg_diffs) : filtered' = Some(v)
    /\ UNCHANGED <<arg_lints, arg_diffs>>
    /\ UNCHANGED <<parser_vars, match_vars, config_vars, run_vars, clippy_vars,
                 sections_vars>>

FilterNext == LintsFromDiff

-----------------------------------------------------------------------------
(* CargoConfig::from_manifest applied to a manifest and a member filter *)

\* the canonical directory of the manifest
Root == <<"/", "r">>

ManifestMembers ==
    { <<"a", "/", "b", "/", "f", "o", "o">>,
      <<"f", "o", "o">>,
      <<"f", "o", "o", "/">>,
      <<"b">>,
      <<".", ".">> }

FilterEntries ==
    { <<"f", "o", "o">>,
      <<"a", "/", "b", "/", "f", "o", "o">>,
      <<"b">>,
      <<".", ".">> }

Manifests ==
    {[workspace |-> None]}
        \cup {[workspace |-> Some(ms)] : ms \in SeqUpTo(ManifestMembers, MaxManifestMembers)}

ConfigIdle ==
    /\ manifest = [workspace |-> None]
    /\ only_members = <<>>
    /\ cfg_pc = "idle"
    /\ config = None

ConfigInit ==
    /\ manifest \in Manifests
    /\ only_members \in SeqUpTo(FilterEntries, MaxFilter)
    /\ cfg_pc = "call"
    /\ config = None

\* from_manifest returns Self; canonicalize(..).unwrap() found the directory
FromManifest ==
    /\ cfg_pc = "call"
    /\ cfg_pc' = "built"
    /\ config' = Some([root |-> Root,
                       members |-> from_manifest_members(manifest, only_members)])
    /\ UNCHANGED <<manifest, only_members>>
    /\ UNCHANGED <<parser_vars, match_vars, filter_vars, run_vars, clippy_vars,
                 sections_vars>>

\* p.parent().unwrap() or canonicalize(..).unwrap() panics (lines 74-75, 101-102)
FromManifestPanics ==
    /\ cfg_pc = "call"
    /\ cfg_pc' = "panicked"
    /\ UNCHANGED <<manifest, only_members, config>>
    /\ UNCHANGED <<parser_vars, match_vars, filter_vars, run_vars, clippy_vars,
                 sections_vars>>

ConfigNext == FromManifest \/ FromManifestPanics

-----------------------------------------------------------------------------
(* Scout::run *)

MemberNames == {<<"f", "o", "o">>, <<"f", "o", "o", "b", "a", "r">>, <<".">>}

\* /r/foo/x, /r/foobar/x, /r/x and the root-relative foo/x
ChangedFiles ==
    { <<"/", "r", "/", "f", "o", "o", "/", "x">>,
      <<"/", "r", "/", "f", "o", "o", "b", "a", "r", "/", "x">>,
      <<"/", "r", "/", "x">>,
      <<"f", "o", "o", "/", "x">> }

RunSections == {Section(f, 0, 10) : f \in ChangedFiles}

\* what one call of the linter may report: nothing, one lint on a changed line
\* of foo/x, or that lint and one outside the change
LinterOutputs ==
    { <<>>,
      <<Lint(<<"f", "o", "o", "/", "x">>, <<2, 2>>, <<"m">>)>>,
      <<Lint(<<"f", "o", "o", "/", "x">>, <<2, 2>>, <<"m">>),
        Lint(<<"/", "r", "/", "f", "o", "o", "/", "x">>, <<12, 22>>, <<"n">>)>> }

Failed == [ok |-> FALSE]

Ok(v) == [ok |-> TRUE, val |-> v]

RunIdle ==
    /\ scout_config = [root |-> <<>>, members |-> <<>>]
    /\ run_pc = "idle"
    /\ diff_sections = <<>>
    /\ member_ix = 1
    /\ lints = <<>>
    /\ lint_calls = <<>>
    /\ run_result = None

\* Scout::new: the configuration is any CargoConfig
RunInit ==
    /\ \E ms \in SeqUpTo(MemberNames, MaxMembers) :
            scout_config = [root |-> Root, members |-> ms]
    /\ run_pc = "start"
    /\ diff_sections = <<>>
    /\ member_ix = 1
    /\ lints = <<>>
    /\ lint_calls = <<>>
    /\ run_result = None

\* lines 32-34: the VCS returns the diff sections
GetSections(secs) ==
    /\ run_pc = "start"
    /\ run_pc' = "members"
    /\ diff_sections' = secs
    /\ UNCHANGED <<scout_config, member_ix, lints, lint_calls, run_result>>
    /\ UNCHANGED <<parser_vars, match_vars, filter_vars, config_vars, clippy_vars,
                 sections_vars>>

\* lines 32-33: current_dir, canonicalize, vcs.root or vcs.sections is Err and `?` returns it
GetSectionsFails ==
    /\ run_pc = "start"
    /\ run_pc' = "done"
    /\ run_result' = Some(Failed)
    /\ UNCHANGED <<scout_config, diff_sections, member_ix, lints, lint_calls>>
    /\ UNCHANGED <<parser_vars, match_vars, filter_vars, config_vars, clippy_vars,
                 sections_vars>>

\* line 33 with Parser::get_sections as the VCS: `diff.map(|diff| self.sections(&diff))`
\* runs Parser::sections inside the call, and its loop body panics on the line
\* ln of the diff text; the panic unwinds through Scout::run
GetSectionsPanics(ln) ==
    /\ run_pc = "start"
    /\ \E checks \in BOOLEAN : loop_body(ln, <<>>, checks).panic
    /\ run_pc' = "panicked"
    /\ UNCHANGED <<scout_config, diff_sections, member_ix, lints, lint_calls, run_result>>
    /\ UNCHANGED <<parser_vars, match_vars, filter_vars, config_vars, clippy_vars,
                 sections_vars>>

\* line 48: the filter rejects the member the iterator yields
SkipMember ==
    /\ run_pc = "members"
    /\ member_ix <= Len(scout_config.members)
    /\ ~diff_in_member(member_path(scout_config, member_ix), diff_sections)
    /\ member_ix' = member_ix + 1
    /\ UNCHANGED <<scout_config, run_pc, diff_sections, lints, lint_calls, run_result>>
    /\ UNCHANGED <<parser_vars, match_vars, filter_vars, config_vars, clippy_vars,
                 sections_vars>>

\* lines 49-54: the linter is run on a relevant member and returns out
LintMember(out) ==
    /\ run_pc = "members"
    /\ member_ix <= Len(scout_config.members)
    /\ diff_in_member(member_path(scout_config, member_ix), diff_sections)
    /\ lint_calls' = Append(lint_calls, member_path(scout_config, member_ix))
    /\ member_ix' = member_ix + 1
    /\ lints' = lints \o out
    /\ UNCHANGED <<scout_config, run_pc, diff_sections, run_result>>
    /\ UNCHANGED <<parser_vars, match_vars, filter_vars, config_vars, clippy_vars,
                 sections_vars>>

\* line 52: the linter is run on a relevant member and is Err; `?` returns it
LintMemberFails ==
    /\ run_pc = "members"
    /\ member_ix <= Len(scout_config.members)
    /\ diff_in_member(member_path(scout_config, member_ix), diff_sections)
    /\ lint_calls' = Append(lint_calls, member_path(scout_config, member_ix))
    /\ run_pc' = "done"
    /\ run_result' = Some(Failed)
    /\ UNCHANGED <<scout_config, diff_sections, member_ix, lints>>
    /\ UNCHANGED <<parser_vars, match_vars, filter_vars, config_vars, clippy_vars,
                 sections_vars>>

\* lines 56-71: the paths are rewritten and lints_from_diff's Vec is returned
ReturnLints ==
    /\ run_pc = "members"
    /\ member_ix > Len(scout_config.members)
    /\ run_pc' = "done"
    /\ \E v \in lints_from_diff(rewrite_paths(scout_config.root, lints), diff_sections) :
            run_result' = Some(Ok(v))
    /\ UNCHANGED <<scout_config, diff_sections, member_ix, lints, lint_calls>>
    /\ UNCHANGED <<parser_vars, match_vars, filter_vars, config_vars, clippy_vars,
                 sections_vars>>

RunNext ==
    \/ \E secs \in SeqUpTo(RunSections, MaxSections) : GetSections(secs)
    \/ GetSectionsFails
    \/ \E ln \in MalformedLines : GetSectionsPanics(ln)
    \/ SkipMember
    \/ \E out \in LinterOutputs : LintMember(out)
    \/ LintMemberFails
    \/ ReturnLints

-----------------------------------------------------------------------------
(* src/src/clippy.rs: the records serde builds and the documents it reads *)

\* struct Span { file_name: String, line_start: i32, line_end: i32 }
Span(name, line_start, line_end) ==
    [file_name |-> name, line_start |-> line_start, line_end |-> line_end]

\* struct Message { rendered: String, spans: Vec<Span> }
Message(rendered, spans) == [rendered |-> rendered, spans |-> spans]

\* struct Lint { package_id: String, src_path: Option<String>, message: Option<Message> }
ClippyLint(package_id, src_path, message) ==
    [package_id |-> package_id, src_path |-> src_path, message |-> message]

\* A JSON document as serde_json reads it.  A number is kept as its literal so
\* that one beyond i32 can be written; an object is a function from its keys.
JNull == [t |-> "null"]

JString(s) == [t |-> "string", s |-> s]

JNumber(digits) == [t |-> "number", digits |-> digits]

JArray(a) == [t |-> "array", a |-> a]

JObject(o) == [t |-> "object", o |-> o]

Err == [ok |-> FALSE]

\* String: only a JSON string
de_string(v) == IF v.t = "string" THEN Ok(v.s) ELSE Err

\* i32: an integer literal in range
de_i32(v) ==
    IF v.t # "number" THEN Err
    ELSE LET n == parse_i32(v.digits)
         IN  IF n.some THEN Ok(n.val) ELSE Err

\* Option<T>: null is None, anything else must be a T; r is what T makes of v
de_option(v, r) ==
    IF v.t = "null" THEN Ok(None)
    ELSE IF r.ok THEN Ok(Some(r.val)) ELSE Err

\* the three fields of Span, already picked from a map or a sequence
span_of(name, line_start, line_end) ==
    LET n == de_string(name)
        s == de_i32(line_start)
        e == de_i32(line_end)
    IN  IF n.ok /\ s.ok /\ e.ok THEN Ok(Span(n.val, s.val, e.val)) ELSE Err

\* #[derive(Deserialize)] for Span: a map with the three keys (others are
\* ignored), or a sequence of exactly the three values
de_span(v) ==
    IF v.t = "object"
    THEN IF {"file_name", "line_start", "line_end"} \subseteq DOMAIN v.o
         THEN span_of(v.o["file_name"], v.o["line_start"], v.o["line_end"])
         ELSE Err                                       \* missing field
    ELSE IF v.t = "array"
    THEN IF Len(v.a) = 3 THEN span_of(v.a[1], v.a[2], v.a[3]) ELSE Err
    ELSE Err

de_spans_first_only(v) ==
    IF v.t # "array" THEN Err
    ELSE IF \E i \in 1..Len(v.a) : ~de_span(v.a[i]).ok THEN Err
    ELSE Ok([i \in 1..(IF Len(v.a) = 0 THEN 0 ELSE 1) |-> de_span(v.a[i]).val])

\* Vec<Span>: an array all of whose elements are Spans, in the array's order
de_spans(v) ==
    IF v.t # "array" THEN Err
    ELSE IF \E i \in 1..Len(v.a) : ~de_span(v.a[i]).ok THEN Err
    ELSE Ok([i \in 1..Len(v.a) |-> de_span(v.a[i]).val])

message_of(rendered, spans) ==
    LET r  == de_string(rendered)
        sp == de_spans(spans)
    IN  IF r.ok /\ sp.ok THEN Ok(Message(r.val, sp.val)) ELSE Err

\* #[derive(Deserialize)] for Message
de_message(v) ==
    IF v.t = "object"
    THEN IF {"rendered", "spans"} \subseteq DOMAIN v.o
         THEN message_of(v.o["rendered"], v.o["spans"])
         ELSE Err                                       \* missing field
    ELSE IF v.t = "array"
    THEN IF Len(v.a) = 2 THEN message_of(v.a[1], v.a[2]) ELSE Err
    ELSE Err

de_option_string(v) == de_option(v, de_string(v))

de_option_message(v) == de_option(v, de_message(v))

lint_of(package_id, src_path, message) ==
    IF package_id.ok /\ src_path.ok /\ message.ok
    THEN Ok(ClippyLint(package_id.val, src_path.val, message.val))
    ELSE Err

\* #[derive(Deserialize)] for Lint: in a map package_id is required and a
\* missing Option field is None; a sequence gives all three values
de_lint(v) ==
    IF v.t = "object"
    THEN IF "package_id" \notin DOMAIN v.o THEN Err     \* missing field
         ELSE lint_of(de_string(v.o["package_id"]),
                      IF "src_path" \in DOMAIN v.o
                      THEN de_option_string(v.o["src_path"]) ELSE Ok(None),
                      IF "message" \in DOMAIN v.o
                      THEN de_option_message(v.o["message"]) ELSE Ok(None))
    ELSE IF v.t = "array"
    THEN IF Len(v.a) = 3
         THEN lint_of(de_string(v.a[1]), de_option_string(v.a[2]),
                      de_option_message(v.a[3]))
         ELSE Err
    ELSE Err

-----------------------------------------------------------------------------
(* src/src/clippy.rs: lints *)

\* A line of clippy_output is the characters `head` followed, when doc is Some,
\* by the text of one JSON document.
Line(head, doc) == [head |-> head, doc |-> doc]

\* the character a JSON document's text starts with
opening(v) ==
    IF v.t = "object" THEN "{"
    ELSE IF v.t = "array" THEN "["
    ELSE IF v.t = "string" THEN "\""
    ELSE IF v.t = "null" THEN "n"
    ELSE Head(v.digits)

\* the text of the line up to and including its document's first character
line_start_text(line) ==
    line.head \o (IF line.doc.some THEN <<opening(line.doc.val)>> ELSE <<>>)

\* serde_json::from_str::<Lint>: the whole line must be one document, with
\* nothing but whitespace around it, and the document must be a Lint
from_str(line) ==
    IF ~line.doc.some THEN Err
    ELSE IF \E i \in 1..Len(line.head) : ~is_whitespace(line.head[i]) THEN Err
    ELSE de_lint(line.doc.val)

\* line 132: .filter(|l| l.starts_with('{'))
is_json_line(line) == starts_with(line_start_text(line), <<"{">>)

keep_lint_with_message(x) == x.message.some

\* lines 134-140: the closure of the last filter
keep_lint(x) == IF x.message.some THEN x.message.val.spans # <<>> ELSE FALSE

\* lines 130-141 from the i-th line on: the iterator chain, collected
RECURSIVE lints_from(_, _)
lints_from(output, i) ==
    IF i > Len(output) THEN <<>>
    ELSE LET r == from_str(output[i])
         IN  (IF is_json_line(output[i]) /\ r.ok /\ keep_lint(r.val)
              THEN <<r.val>> ELSE <<>>)
             \o lints_from(output, i + 1)

\* pub fn lints(clippy_output: &str) -> Vec<Lint>
lints_of(output) == lints_from(output, 1)

-----------------------------------------------------------------------------
(* lints applied to a clippy_output of a few lines *)

\* {"file_name": "f", "line_start": 10, "line_end": 12}, as in test_lints
SpanF == JObject([file_name |-> JString(<<"f">>),
                  line_start |-> JNumber(<<"1", "0">>),
                  line_end |-> JNumber(<<"1", "2">>)])

\* a second span, in another file
SpanG == JObject([file_name |-> JString(<<"g">>),
                  line_start |-> JNumber(<<"3">>),
                  line_end |-> JNumber(<<"3">>)])

\* a span whose line_start is a string, and one whose line_end is beyond i32
BadSpans ==
    { JObject([file_name |-> JString(<<"f">>),
               line_start |-> JString(<<"1", "0">>),
               line_end |-> JNumber(<<"1", "2">>)]),
      JObject([file_name |-> JString(<<"f">>),
               line_start |-> JNumber(<<"1", "0">>),
               line_end |-> JNumber(<<"2", "1", "4", "7", "4", "8", "3", "6", "4", "8">>)]) }

MessageDoc(rendered, spans) ==
    JObject([rendered |-> JString(rendered), spans |-> JArray(spans)])

\* records that deserialize and carry spans: the one of test_lints, one with two
\* spans and no src_path, one with a key Lint does not have, one that gives
\* Message and Span as sequences
SpannedDocs ==
    { JObject([package_id |-> JString(<<"p">>), src_path |-> JString(<<"s">>),
               message |-> MessageDoc(<<"m">>, <<SpanF>>)]),
      JObject([package_id |-> JString(<<"p">>),
               message |-> MessageDoc(<<"n">>, <<SpanF, SpanG>>)]),
      JObject([package_id |-> JString(<<"p">>), reason |-> JString(<<"c">>),
               message |-> MessageDoc(<<"m">>, <<SpanG, SpanF>>)]),
      JObject([package_id |-> JString(<<"q">>), src_path |-> JNull,
               message |-> JArray(<<JString(<<"m">>),
                                    JArray(<<JArray(<<JString(<<"g">>),
                                                      JNumber(<<"3">>),
                                                      JNumber(<<"3">>)>>)>>)>>)]) }

\* records that deserialize and carry no span: no message, a null message, an
\* empty span list
SpanlessDocs ==
    { JObject([package_id |-> JString(<<"p">>)]),
      JObject([package_id |-> JString(<<"p">>), message |-> JNull]),
      JObject([package_id |-> JString(<<"p">>), message |-> MessageDoc(<<"m">>, <<>>)]) }

\* objects that are not a Lint: no package_id, a message without `rendered`, a
\* span that is not a Span
UndeserializableDocs ==
    { JObject([message |-> MessageDoc(<<"m">>, <<SpanF>>)]),
      JObject([package_id |-> JString(<<"p">>),
               message |-> JObject([spans |-> JArray(<<SpanF>>)])]) }
        \cup {JObject([package_id |-> JString(<<"p">>),
                       message |-> MessageDoc(<<"m">>, <<SpanF, b>>)]) : b \in BadSpans}

\* lines that do not begin with `{`: an empty line, text, a Lint behind a space,
\* a Lint given as a top-level sequence
NonBraceLines ==
    { Line(<<>>, None),
      Line(<<"w">>, None),
      Line(<<" ">>, Some(JObject([package_id |-> JString(<<"p">>),
                                  message |-> MessageDoc(<<"m">>, <<SpanF>>)]))),
      Line(<<>>, Some(JArray(<<JString(<<"p">>), JNull, MessageDoc(<<"m">>, <<SpanF>>)>>))) }

\* a line that begins with `{` and is not JSON
BrokenBraceLines == {Line(<<"{", "x">>, None)}

OutputLines ==
    {Line(<<>>, Some(d)) : d \in SpannedDocs \cup SpanlessDocs \cup UndeserializableDocs}
        \cup NonBraceLines \cup BrokenBraceLines

ClippyIdle ==
    /\ clippy_output = <<>>
    /\ clippy_lints = None

ClippyInit ==
    /\ clippy_output \in SeqUpTo(OutputLines, MaxOutputLines)
    /\ clippy_lints = None

Lints ==
    /\ ~clippy_lints.some
    /\ clippy_lints' = Some(lints_of(clippy_output))
    /\ UNCHANGED clippy_output
    /\ UNCHANGED <<parser_vars, match_vars, filter_vars, config_vars, run_vars,
                 sections_vars>>

ClippyNext == Lints

-----------------------------------------------------------------------------
(* Parser::sections applied to a whole diff text *)

Sectioned(secs) == [panic |-> FALSE, sections |-> secs]

\* the `for l in git_diff.lines()` loop from the i-th line on, file_name being
\* name and sections being secs
RECURSIVE sections_from(_, _, _, _, _)
sections_from(diff, i, name, secs, checks) ==
    IF i > Len(diff) THEN Sectioned(secs)               \* line 122
    ELSE LET r == loop_body(diff[i], name, checks)
         IN  IF r.panic THEN Panic
             ELSE sections_from(diff, i + 1, r.file_name,
                                IF r.pushed.some THEN Append(secs, r.pushed.val) ELSE secs,
                                checks)

\* fn sections(&self, git_diff: &str) -> Vec<Section>
sections_of(diff, checks) == sections_from(diff, 1, <<>>, <<>>, checks)

\* the lines of the diffs read whole: +++ b/f, +++ b/d/g, two hunk headers,
\* a `+++` line without a path separator, a line with neither marker
WholeDiffLines ==
    {FileLine(f) : f \in FileNames}
        \cup {HunkWithCount(33, 9), HunkNoCount(5), FileLineNoSlash}
        \cup OtherLines

SectionsIdle ==
    /\ git_diff = <<>>
    /\ parsed = None

SectionsInit ==
    /\ git_diff \in SeqUpTo(WholeDiffLines, MaxDiffLines)
    /\ parsed = None

\* the call, in either build profile
Sections ==
    /\ ~parsed.some
    /\ \E checks \in BOOLEAN : parsed' = Some(sections_of(git_diff, checks))
    /\ UNCHANGED git_diff
    /\ UNCHANGED <<parser_vars, match_vars, filter_vars, config_vars, run_vars, clippy_vars>>

SectionsNext == Sections

-----------------------------------------------------------------------------
(* The specifications: each runs one component and leaves the others idle *)

InitParse == ParserInit /\ MatchIdle /\ FilterIdle /\ ConfigIdle /\ RunIdle /\ ClippyIdle
    /\ SectionsIdle

SpecParse == InitParse /\ [][ParserNext]_vars

InitMatch == MatchInit /\ ParserIdle /\ FilterIdle /\ ConfigIdle /\ RunIdle /\ ClippyIdle
    /\ SectionsIdle

SpecMatch == InitMatch /\ [][MatchNext]_vars

InitFilter == FilterInit /\ ParserIdle /\ MatchIdle /\ ConfigIdle /\ RunIdle /\ ClippyIdle
    /\ SectionsIdle

SpecFilter == InitFilter /\ [][FilterNext]_vars

InitConfig == ConfigInit /\ ParserIdle /\ MatchIdle /\ FilterIdle /\ RunIdle /\ ClippyIdle
    /\ SectionsIdle

SpecConfig == InitConfig /\ [][ConfigNext]_vars

Init == RunInit /\ ParserIdle /\ MatchIdle /\ FilterIdle /\ ConfigIdle /\ ClippyIdle
    /\ SectionsIdle

Next == RunNext

Spec == Init /\ [][Next]_vars

InitLints == ClippyInit /\ ParserIdle /\ MatchIdle /\ FilterIdle /\ ConfigIdle /\ RunIdle
    /\ SectionsIdle

SpecLints == InitLints /\ [][ClippyNext]_vars

InitSections ==
    SectionsInit /\ ParserIdle /\ MatchIdle /\ FilterIdle /\ ConfigIdle /\ RunIdle
        /\ ClippyIdle

SpecSections == InitSections /\ [][SectionsNext]_vars

-----------------------------------------------------------------------------
(* What the claims speak of, stated apart from the code *)

\* one character after every backslash is replaced by a forward slash
Slashed(c) == IF c = "\\" THEN "/" ELSE c

\* path match: the two paths are equal once every backslash is a forward slash
PathMatch(p, q) ==
    /\ Len(p) = Len(q)
    /\ \A i \in 1..Len(p) : Slashed(p[i]) = Slashed(q[i])

\* the inclusive ranges [fs, fe] and [cs, ce] share a line
SharesLine(fs, fe, cs, ce) ==
    \E n \in 0..(fe + ce) : fs <= n /\ n <= fe /\ cs <= n /\ n <= ce

\* line match: the two-sided test
LineMatch(fs, fe, cs, ce) == (fs <= cs /\ cs <= fe) \/ (cs <= fs /\ fs <= ce)

\* finding f and change c match on path and on lines
Matches(f, c) ==
    /\ PathMatch(f.location.path, c.file_name)
    /\ LineMatch(f.location.lines[1], f.location.lines[2], c.line_start, c.line_end)

Elements(seq) == {seq[i] : i \in 1..Len(seq)}

\* how many times x occurs in seq
Occurrences(seq, x) == Cardinality({i \in 1..Len(seq) : seq[i] = x})

-----------------------------------------------------------------------------
(* C1 *)

\* C1: lints_from_diff returns a finding exactly when it is one of the lints
\* given and some diff section matches it on path and on lines; the result holds
\* nothing that was not given, and is empty when the lints or the diffs are empty.
C1_FilterExact ==
    filtered.some =>
        /\ \A f \in FilterLints :
              f \in Elements(filtered.val)
                  <=> /\ f \in Elements(arg_lints)
                      /\ \E c \in Elements(arg_diffs) : Matches(f, c)
        /\ Elements(filtered.val) \subseteq Elements(arg_lints)
        /\ (arg_lints = <<>> \/ arg_diffs = <<>>) => filtered.val = <<>>

\* C1 witness: lints at [2,2] and [12,22] of one file, one change [0,10] in it:
\* exactly the [2,2] lint is returned.
C1_Witness ==
    /\ arg_lints = << Lint(<<"f", "/", "x">>, <<2, 2>>, <<"m">>),
                      Lint(<<"f", "/", "x">>, <<12, 22>>, <<"n">>) >>
    /\ arg_diffs = << Section(<<"f", "/", "x">>, 0, 10) >>
    /\ filtered = Some(<< Lint(<<"f", "/", "x">>, <<2, 2>>, <<"m">>) >>)

-----------------------------------------------------------------------------
(* C2 *)

\* C2: for a lint span [fs, fe] and a section [cs, ce] with fs <= fe and cs <= ce,
\* lines_in_range is true exactly when the two inclusive ranges share a line;
\* [1,10] and [10,19] (a shared endpoint) match, [1,10] and [11,12] do not.
C2_LineMatchIsOverlap ==
    /\ lines_matched.some
            /\ line_start_of(lint) <= line_end_of(lint)
            /\ git_section.line_start <= git_section.line_end
        => (lines_matched.val
                <=> SharesLine(line_start_of(lint), line_end_of(lint),
                               git_section.line_start, git_section.line_end))
    /\ lines_matched.some =>
            /\ lines_in_range(Lint(<<>>, <<1, 10>>, <<>>), Section(<<>>, 10, 19))
            /\ lines_in_range(Lint(<<>>, <<1, 10>>, <<>>), Section(<<>>, 5, 12))
            /\ ~lines_in_range(Lint(<<>>, <<1, 10>>, <<>>), Section(<<>>, 11, 12))

\* C2 witness: the section starts before the lint and ends on the lint's first
\* line, so only the second half of the test finds the shared line.
C2_Witness ==
    /\ lines_matched = Some(TRUE)
    /\ git_section.line_start < line_start_of(lint)
    /\ git_section.line_end = line_start_of(lint)
    /\ line_start_of(lint) < line_end_of(lint)

-----------------------------------------------------------------------------
(* C3 *)

\* C3: files_match holds exactly when the two paths are equal once every
\* backslash is a forward slash: no case folding, no leading-slash or dot-segment
\* canonicalisation, no collapsing of repeated separators.
C3_PathMatchIsNormalisedEquality ==
    files_matched.some =>
        /\ files_matched.val <=> PathMatch(lint.location.path, git_section.file_name)
        /\ LET OnPaths(p, q) == files_match(Lint(p, <<0, 0>>, <<>>), Section(q, 0, 0))
           IN  /\ OnPaths(<<"a", "\\", "b">>, <<"a", "/", "b">>)
               /\ ~OnPaths(<<"a", "/", "b">>, <<"/", "a", "/", "b">>)
               /\ ~OnPaths(<<"a", "\\", "\\", "b">>, <<"a", "/", "b">>)
               /\ ~OnPaths(<<"A", "/", "b">>, <<"a", "/", "b">>)
               /\ ~OnPaths(<<".", "/", "a", "/", "b">>, <<"a", "/", "b">>)
               /\ ~OnPaths(<<"a", "/", "/", "b">>, <<"a", "/", "b">>)

\* C3 witness: a backslash path of the lint matched a forward-slash path of the diff.
C3_Witness ==
    /\ files_matched = Some(TRUE)
    /\ lint.location.path = <<"a", "\\", "b">>
    /\ git_section.file_name = <<"a", "/", "b">>

-----------------------------------------------------------------------------
(* C4 *)

\* C4: the Vec lints_from_diff returns holds no two equal lints (equal on path,
\* line span and message): a lint that several sections match, or that is given
\* several times, is returned once.
C4_NoDuplicates ==
    filtered.some =>
        \A f \in Elements(filtered.val) : Occurrences(filtered.val, f) = 1

\* C4 witness: one lint given twice and matched by two different sections is
\* returned once.
C4_Witness ==
    /\ Len(arg_lints) = 2 /\ arg_lints[1] = arg_lints[2]
    /\ Len(arg_diffs) = 2 /\ arg_diffs[1] # arg_diffs[2]
    /\ \A c \in Elements(arg_diffs) : Matches(arg_lints[1], c)
    /\ filtered = Some(<<arg_lints[1]>>)

-----------------------------------------------------------------------------
(* C5 *)

\* S + C is an i32 (S is not negative)
FitsI32(S, C) == C <= 0 \/ S <= I32Max - C

\* the loop body ran on one more line
LineRead == parse_pc = "lines" /\ lines_read' = lines_read + 1

\* the line read pushed exactly the section r of the current file
Pushed(S, E) ==
    /\ parse_pc' = "lines"
    /\ file_name' = file_name
    /\ sections' = Append(sections, Section(file_name, S, E))

\* C5: a hunk header whose new-file half is +S,C pushes (current file, S, S + C),
\* for every S and C whose sum is an i32; a header without a count, or whose
\* count is not a number, pushes (current file, S, S + 1).
C5_HunkArithmetic ==
    [][ LineRead =>
          /\ \A c \in HunkCases :
                l' = HunkWithCount(c[1], c[2]) /\ FitsI32(c[1], c[2])
                    => Pushed(c[1], c[1] + c[2])
          /\ \A S \in Starts :
                l' = HunkNoCount(S) /\ FitsI32(S, 1) => Pushed(S, S + 1)
          /\ l' = HunkBadCount => Pushed(5, 6)
      ]_vars

\* C5 witness: after +++ b/f, `@@ -33,6 +33,9 @@` gave (f, 33, 42) and then
\* `@@ -5 +5 @@` gave (f, 5, 6).
C5_Witness ==
    /\ parse_pc = "returned"
    /\ l = <<"@", "@", " ", "-", "5", " ", "+", "5", " ", "@", "@">>
    /\ HunkWithCount(33, 9) =
          <<"@", "@", " ", "-", "3", "3", ",", "6", " ",
            "+", "3", "3", ",", "9", " ", "@", "@">>
    /\ sections = <<Section(<<"f">>, 33, 42), Section(<<"f">>, 5, 6)>>

-----------------------------------------------------------------------------
(* C6 *)

\* C6: Parser::sections returns for every diff text and never fails or aborts:
\* a malformed `+++` or `@@` line contributes no section and the lines before
\* and after it are still parsed.
C6_NeverFails == parse_pc # "panicked"

-----------------------------------------------------------------------------
(* C7 *)

\* C7: a hunk header read before any `+++` line pushes no section: no section
\* with an empty file_name is ever returned.
C7_NoUnattributedSection ==
    \A i \in 1..Len(sections) : sections[i].file_name # <<>>

-----------------------------------------------------------------------------
(* C8 *)

\* p is a literal prefix of f
IsPrefix(p, f) == Len(p) <= Len(f) /\ \A i \in 1..Len(p) : f[i] = p[i]

\* the path of the i-th member entry: the entry joined onto the root
MemberPath(i) == path_join(scout_config.root, scout_config.members[i])

\* some diff section's file path starts with the i-th member's path
Relevant(i) == \E s \in Elements(diff_sections) : IsPrefix(MemberPath(i), s.file_name)

\* the paths of the relevant entries among the first n, in member-list order
RECURSIVE RelevantUpTo(_)
RelevantUpTo(n) ==
    IF n = 0 THEN <<>>
    ELSE IF Relevant(n) THEN Append(RelevantUpTo(n - 1), MemberPath(n))
    ELSE RelevantUpTo(n - 1)

AllRelevant == RelevantUpTo(Len(scout_config.members))

Returned == run_pc = "done" /\ run_result.val.ok

NothingToLint == scout_config.members = <<>> \/ diff_sections = <<>>

\* C8 as stated: in every run the linter is invoked exactly once for each entry
\* of the member list whose path is a literal prefix of some diff section's file
\* path, and for no other; with no members or no diff it is not invoked and the
\* result is empty.
C8_EveryRelevantMemberLinted ==
    run_pc = "done" =>
        /\ lint_calls = AllRelevant
        /\ NothingToLint /\ run_result.val.ok => run_result.val.val = <<>>

\* C8 amended: the linter is invoked only for relevant entries, at most once each
\* and in member-list order; a run that returns a result has invoked it exactly
\* once for each relevant entry (a failed invocation ends the run before the
\* later ones); with no members or no diff it is never invoked and a returned
\* result is empty.
C8_RelevantMembersLinted ==
    /\ Len(lint_calls) <= Len(AllRelevant)
    /\ lint_calls = SubSeq(AllRelevant, 1, Len(lint_calls))
    /\ Returned => lint_calls = AllRelevant
    /\ NothingToLint => lint_calls = <<>>
    /\ NothingToLint /\ Returned => run_result.val.val = <<>>

\* C8 witness: members foo and `.` under /r, one change at /r/foobar/x: the run
\* returned having linted /r/foo (a prefix, though not the directory) and only it.
C8_Witness ==
    /\ Returned
    /\ scout_config.members = << <<"f", "o", "o">>, <<".">> >>
    /\ diff_sections = <<Section(<<"/", "r", "/", "f", "o", "o", "b", "a", "r", "/", "x">>, 0, 10)>>
    /\ lint_calls = << <<"/", "r", "/", "f", "o", "o">> >>

-----------------------------------------------------------------------------
(* C9 *)

\* p without its trailing separators and trailing "." segments
RECURSIVE Trimmed(_)
Trimmed(p) ==
    IF p # <<>> /\ p[Len(p)] = "/" THEN Trimmed(SubSeq(p, 1, Len(p) - 1))
    ELSE IF Len(p) >= 2 /\ p[Len(p) - 1] = "/" /\ p[Len(p)] = "."
         THEN Trimmed(SubSeq(p, 1, Len(p) - 2))
    ELSE p

\* the final path segment: what follows the last separator of the trimmed path
FinalSegment(p) ==
    LET t == Trimmed(p)
        last_slash == CHOOSE i \in 0..Len(t) :
                        /\ i = 0 \/ t[i] = "/"
                        /\ \A j \in (i + 1)..Len(t) : t[j] # "/"
    IN  SubSeq(t, last_slash + 1, Len(t))

\* the segment names a directory
IsName(seg) == seg \notin { <<>>, <<".">>, <<".", ".">> }

Kept(m) ==
    \/ only_members = <<>>
    \/ IsName(FinalSegment(m)) /\ FinalSegment(m) \in Elements(only_members)

\* C9: with an empty filter every workspace member is kept; with a non-empty
\* filter a member is kept exactly when its final path segment (the directory's
\* name, not the whole relative path) is an entry of the filter; the kept members
\* are in manifest order.
C9_MemberFilter ==
    cfg_pc = "built" /\ manifest.workspace.some =>
        /\ config.val.members = SelectSeq(manifest.workspace.val, Kept)
        /\ LET foo == <<"a", "/", "b", "/", "f", "o", "o">>
           IN  /\ keep_member(foo, << <<"f", "o", "o">> >>)
               /\ ~keep_member(foo, << foo >>)
               /\ ~keep_member(foo, << <<"b">> >>)

\* C9 witness: members a/b/foo and b filtered by foo: a/b/foo alone is kept.
C9_Witness ==
    /\ cfg_pc = "built"
    /\ manifest = [workspace |-> Some(<< <<"a", "/", "b", "/", "f", "o", "o">>, <<"b">> >>)]
    /\ only_members = << <<"f", "o", "o">> >>
    /\ config.val.members = << <<"a", "/", "b", "/", "f", "o", "o">> >>

-----------------------------------------------------------------------------
(* C10 *)

\* C10: the member list of the configuration built is never empty, and for a
\* manifest without a workspace it is [`.`] whatever the filter.
C10_MembersNeverEmpty ==
    cfg_pc = "built" =>
        /\ config.val.members # <<>>
        /\ ~manifest.workspace.some => config.val.members = << <<".">> >>

-----------------------------------------------------------------------------
(* C11 *)

BeginsWithBrace(line) ==
    LET text == line_start_text(line)
    IN  text # <<>> /\ text[1] = "{"

\* the i-th line of the output is one whose record is to be returned
Retained(i) ==
    LET line == clippy_output[i]
    IN  /\ BeginsWithBrace(line)
        /\ from_str(line).ok
        /\ from_str(line).val.message.some
        /\ Len(from_str(line).val.message.val.spans) >= 1

RetainedLines == {i \in 1..Len(clippy_output) : Retained(i)}

\* the k-th smallest element of the set K of line numbers
Kth(K, k) == CHOOSE i \in K : Cardinality({j \in K : j < i}) = k - 1

\* C11: lints returns, in input line order, exactly the records of the lines that
\* begin with `{`, deserialize and carry a message with at least one span; a line
\* of any other kind is dropped, the call still returns, and the other lines'
\* records are returned as if the dropped line were absent.
C11_NormalizeKeepsExactly ==
    clippy_lints.some =>
        /\ Len(clippy_lints.val) = Cardinality(RetainedLines)
        /\ \A k \in 1..Len(clippy_lints.val) :
                clippy_lints.val[k] = from_str(clippy_output[Kth(RetainedLines, k)]).val

\* C11 witness: lints has returned on an output in which a line that begins with
\* `{` and does not deserialize, and a record without spans, come before a
\* record with spans; that record alone is returned.
C11_Witness ==
    /\ clippy_lints.some
    /\ Len(clippy_lints.val) = 1
    /\ \E i, j, k \in 1..Len(clippy_output) :
            /\ i < k /\ j < k
            /\ BeginsWithBrace(clippy_output[i]) /\ ~from_str(clippy_output[i]).ok
            /\ from_str(clippy_output[j]).ok /\ ~Retained(j)
            /\ Retained(k)

-----------------------------------------------------------------------------
(* C12 *)

\* the value of a struct's field in the document v, given as a map or a sequence
Field(v, name, pos) == IF v.t = "object" THEN v.o[name] ELSE v.a[pos]

\* the spans the i-th line's document lists, and its message text
SpansListed(i) ==
    Field(Field(clippy_output[i].doc.val, "message", 3), "spans", 2).a

RenderedText(i) ==
    Field(Field(clippy_output[i].doc.val, "message", 3), "rendered", 1).s

\* what is exposed for one span: its file, its line range, the parent's message
Finding(path, lines, message) == [path |-> path, lines |-> lines, message |-> message]

FindingsOf(x) ==
    [j \in 1..Len(x.message.val.spans) |->
        Finding(x.message.val.spans[j].file_name,
                <<x.message.val.spans[j].line_start, x.message.val.spans[j].line_end>>,
                x.message.val.rendered)]

\* C12: for a returned record whose document lists n >= 1 spans, n findings are
\* exposed, the j-th with the file and line range of the j-th listed span and
\* with the record's message text; no two spans are merged into one range.
C12_OneFindingPerSpan ==
    clippy_lints.some =>
        \A k \in 1..Len(clippy_lints.val) :
            LET i  == Kth(RetainedLines, k)
                fs == FindingsOf(clippy_lints.val[k])
            IN  /\ Len(fs) = Len(SpansListed(i))
                /\ Len(fs) >= 1
                /\ \A j \in 1..Len(fs) :
                    LET sp == SpansListed(i)[j]
                    IN  /\ fs[j].path = Field(sp, "file_name", 1).s
                        /\ parse_i32(Field(sp, "line_start", 2).digits) = Some(fs[j].lines[1])
                        /\ parse_i32(Field(sp, "line_end", 3).digits) = Some(fs[j].lines[2])
                        /\ fs[j].message = RenderedText(i)

\* C12 witness: a record listing the span of f (lines 10-12) and then the span of
\* g (line 3) has been returned: two findings with the one message text.
C12_Witness ==
    /\ clippy_lints.some
    /\ \E k \in 1..Len(clippy_lints.val) :
            FindingsOf(clippy_lints.val[k]) =
                << Finding(<<"f">>, <<10, 12>>, <<"n">>), Finding(<<"g">>, <<3, 3>>, <<"n">>) >>

-----------------------------------------------------------------------------
(* C13 *)

RunEnded == run_pc \notin {"idle", "start", "members"}

\* the result of a complete run: every relevant member was linted and the Vec is
\* one lints_from_diff may return for all the lints gathered
CompleteResult(v) ==
    /\ lint_calls = AllRelevant
    /\ v \in lints_from_diff(rewrite_paths(scout_config.root, lints), diff_sections)

\* C13: a run ends in exactly one of two outcomes, the complete filtered result
\* or an error; when diff retrieval fails the linter is never invoked; when the
\* linter fails for a relevant member the run returns the error, which carries no
\* findings, and no later member is linted.
C13_ResultOrError ==
    /\ [](RunEnded => /\ run_result.some
                      /\ run_result.val.ok => CompleteResult(run_result.val.val))
    /\ [][GetSectionsFails => run_result' = Some(Failed) /\ lint_calls' = <<>>]_vars
    /\ [][LintMemberFails => run_result' = Some(Failed)]_vars
    /\ [][run_result.some => lint_calls' = lint_calls]_vars

-----------------------------------------------------------------------------
(* C14 *)

\* C14: every section Parser::sections holds or returns has line_start >= 0 and
\* line_end >= line_start, whatever the diff text, a count of 0 or a signed
\* count included.
C14_RangeWellFormed ==
    \A i \in 1..Len(sections) :
        /\ sections[i].line_start >= 0
        /\ sections[i].line_end >= sections[i].line_start

-----------------------------------------------------------------------------
(* C15 *)

IsFileLine(ln) == Len(ln) >= 3 /\ ln[1] = "+" /\ ln[2] = "+" /\ ln[3] = "+"

IsHunkHeader(ln) == Len(ln) >= 2 /\ ln[1] = "@" /\ ln[2] = "@"

HunkHeaders == {i \in 1..Len(git_diff) : IsHunkHeader(git_diff[i])}

FileLinesBefore(i) == {j \in 1..(i - 1) : IsFileLine(git_diff[j])}

\* the most recent +++ line before line i
LastFileLineBefore(i) ==
    CHOOSE j \in FileLinesBefore(i) : \A k \in FileLinesBefore(i) : k <= j

\* the text of ln after its first `/`
AfterFirstSlash(ln) ==
    LET first == CHOOSE i \in 1..Len(ln) : ln[i] = "/" /\ \A j \in 1..(i - 1) : ln[j] # "/"
    IN  [k \in 1..(Len(ln) - first) |-> ln[first + k]]

\* every hunk header of the diff comes after some +++ line
AllAttributed == \A i \in HunkHeaders : FileLinesBefore(i) # {}

\* C15: for a diff in which every hunk header follows a +++ line, the sections
\* returned are one per hunk header, in the order of the headers, and the k-th
\* carries the path after the first `/` of the most recent +++ line before the
\* k-th header: never the path of an earlier +++ line, and the same path for all
\* the headers under one +++ line.
C15_FileAttribution ==
    parsed.some /\ ~parsed.val.panic /\ AllAttributed =>
        /\ Len(parsed.val.sections) = Cardinality(HunkHeaders)
        /\ \A k \in 1..Len(parsed.val.sections) :
              parsed.val.sections[k].file_name =
                  AfterFirstSlash(git_diff[LastFileLineBefore(Kth(HunkHeaders, k))])

\* C15 witness: +++ b/f, a hunk, +++ b/d/g, a hunk gave (f, 33, 42) and then
\* (d/g, 5, 6).
C15_Witness ==
    /\ parsed.some /\ ~parsed.val.panic
    /\ git_diff = <<FileLine(<<"f">>), HunkWithCount(33, 9),
                    FileLine(<<"d", "/", "g">>), HunkNoCount(5)>>
    /\ parsed.val.sections =
          <<Section(<<"f">>, 33, 42), Section(<<"d", "/", "g">>, 5, 6)>>

-----------------------------------------------------------------------------
(* C16 *)

\* the set of lints lints_from_diff returns for ls and ds, whatever the order
FilterSet(ls, ds) == UNION {Elements(v) : v \in lints_from_diff(ls, ds)}

\* C16: for every way of writing the lints as F1 ++ F2 the set returned is the
\* union of the sets returned for F1 and for F2 with the same sections; and for
\* every way of writing the sections as C ++ C' the set returned for C alone is a
\* subset of the one returned.
C16_FilterDistributes ==
    filtered.some =>
        /\ \A n \in 0..Len(arg_lints) :
              Elements(filtered.val) =
                  FilterSet(SubSeq(arg_lints, 1, n), arg_diffs)
                      \cup FilterSet(SubSeq(arg_lints, n + 1, Len(arg_lints)), arg_diffs)
        /\ \A m \in 0..Len(arg_diffs) :
              FilterSet(arg_lints, SubSeq(arg_diffs, 1, m)) \subseteq Elements(filtered.val)

\* C16 witness: two lints were returned, one from each part of the list, and
\* with the first section alone none is.
C16_Witness ==
    /\ filtered.some
    /\ Len(arg_lints) = 2 /\ Len(arg_diffs) = 2
    /\ Cardinality(Elements(filtered.val)) = 2
    /\ Cardinality(FilterSet(SubSeq(arg_lints, 1, 1), arg_diffs)) = 1
    /\ Cardinality(FilterSet(SubSeq(arg_lints, 2, 2), arg_diffs)) = 1
    /\ FilterSet(arg_lints, SubSeq(arg_diffs, 1, 1)) = {}

-----------------------------------------------------------------------------
(* C17 *)

\* the configuration of a repository without a workspace
NonWorkspace == scout_config.members = << <<".">> >>

\* C17: with the member list [`.`] and at least one diff section, the member is
\* judged relevant and a run that returns a result has invoked the linter
\* exactly once.
C17_RootMemberLinted ==
    NonWorkspace /\ diff_sections # <<>> =>
        /\ diff_in_member(member_path(scout_config, 1), diff_sections)
        /\ Returned => Len(lint_calls) = 1

=============================================================================
